---- MODULE Spec2Model ----
(***************************************************************************)
(* Model of code/create_datalad_addurls_csv.py: the S3 URI parser, the     *)
(* paginated key lister (a generator) and the CSV manifest writer.         *)
(*                                                                         *)
(* A Python str is a sequence of one-character strings; an optional value  *)
(* (a dict key that may be missing, an argument that may be None) is a     *)
(* sequence of length 0 or 1.                                              *)
(***************************************************************************)
EXTENDS Integers, Sequences, FiniteSets, TLC

\* ------------------------------------------------------------------ bounds
\* most listing pages the storage service holds for one run
MaxPages == 2
\* most pieces a URI handed to the parser alone is made of
MaxChunks == 4

\* ------------------------------------------------------- program constants
MaxKeys == 1000

\* ------------------------------------------------------------ str helpers
Slash == "/"
Quote == "\""
Newline == "\n"

\* s.startswith(p)
StartsWith(s, p) == Len(p) <= Len(s) /\ SubSeq(s, 1, Len(p)) = p

\* s.endswith(x)
EndsWith(s, x) == Len(x) <= Len(s) /\ SubSeq(s, Len(s) - Len(x) + 1, Len(s)) = x

\* sep.join(parts)
RECURSIVE Join(_, _)
Join(sep, parts) ==
    IF parts = <<>> THEN <<>>
    ELSE IF Len(parts) = 1 THEN parts[1]
    ELSE parts[1] \o sep \o Join(sep, Tail(parts))

\* s.find(sep, i): the first index >= i where sep occurs in s, 0 when none
RECURSIVE Find(_, _, _)
Find(s, sep, i) ==
    IF i + Len(sep) - 1 > Len(s) THEN 0
    ELSE IF SubSeq(s, i, i + Len(sep) - 1) = sep THEN i
    ELSE Find(s, sep, i + 1)

\* s.split(sep) for a non-empty sep: left to right, non-overlapping
RECURSIVE Split(_, _)
Split(s, sep) ==
    LET j == Find(s, sep, 1)
    IN  IF j = 0 THEN <<s>>
        ELSE <<SubSeq(s, 1, j - 1)>> \o Split(SubSeq(s, j + Len(sep), Len(s)), sep)

\* s.replace(old, new) for a one-character old
RECURSIVE Replace(_, _, _)
Replace(s, old, new) ==
    IF s = <<>> THEN <<>>
    ELSE (IF Head(s) = old THEN new ELSE <<Head(s)>>) \o Replace(Tail(s), old, new)

\* s.strip(ch): every leading and every trailing ch removed
RECURSIVE LStrip(_, _)
LStrip(s, ch) ==
    IF s # <<>> /\ Head(s) = ch THEN LStrip(Tail(s), ch) ELSE s

RECURSIVE RStrip(_, _)
RStrip(s, ch) ==
    IF s # <<>> /\ s[Len(s)] = ch THEN RStrip(SubSeq(s, 1, Len(s) - 1), ch) ELSE s

Strip(s, ch) == RStrip(LStrip(s, ch), ch)

\* ------------------------------------------------------------- the parser
Scheme == <<"s", "3", ":", Slash, Slash>>

\* (?P<key>.*) from index i: the longest run without a line feed
RECURSIVE DotStar(_, _)
DotStar(s, i) ==
    IF i > Len(s) \/ s[i] = Newline THEN <<>>
    ELSE <<s[i]>> \o DotStar(s, i + 1)

\* (?P<bucket>[^\/]*)\/(?P<key>.*) matched at index i: the bucket is the
\* run up to the first "/" at or after i, which the pattern requires
MatchBucketKey(s, i) ==
    LET j == Find(s, <<Slash>>, i)
    IN  IF j = 0 THEN [ok |-> FALSE, bucket |-> <<>>, key |-> <<>>]
        ELSE [ok |-> TRUE, bucket |-> SubSeq(s, i, j - 1), key |-> DotStar(s, j + 1)]

\* re.match(pattern, s3_uri): the optional group (s3:\/\/)? is tried first
\* and given up when the rest of the pattern does not match after it
_parse_s3_uri(s3_uri) ==
    LET withScheme == MatchBucketKey(s3_uri, Len(Scheme) + 1)
    IN  IF StartsWith(s3_uri, Scheme) /\ withScheme.ok THEN withScheme
        ELSE MatchBucketKey(s3_uri, 1)

\* ------------------------------------------------- the pure functions used
\* the filter with the suffix test left out
KeepPrefixOnly(key, prefix, suffix) == StartsWith(key, prefix)

\* line 113: the filter applied to each listed object
Keep(key, prefix, suffix) == StartsWith(key, prefix) /\ EndsWith(key, suffix)

\* line 114: "/".join(["s3:/", bucket, key])
S3Url(bucket, key) == Join(<<Slash>>, <<<<"s", "3", ":", Slash>>, bucket, key>>)

\* lines 115-118: what the generator yields for one object
Yielded(bucket, obj, add_version) ==
    IF add_version THEN <<S3Url(bucket, obj.Key), Strip(obj.ETag, Quote)>>
    ELSE <<S3Url(bucket, obj.Key)>>

\* line 171: s3_url.split(split_key + "/")[-1].replace("/", "//")
Filename(s3_url, split_key) ==
    LET parts == Split(s3_url, split_key \o <<Slash>>)
    IN  Replace(parts[Len(parts)], Slash, <<Slash, Slash>>)

\* the mode when the overwrite flag is ignored
OpenModeAlwaysWrite(overwrite) == "w"

\* line 161
OpenMode(overwrite) == IF overwrite THEN "w" ELSE "x"

\* an open that empties the file before it finds that it may not
OpenTruncatesThenFails(file, mode) ==
    IF mode = "x" /\ file.exists
    THEN [ok |-> FALSE, file |-> [exists |-> TRUE, rows |-> <<>>]]
    ELSE [ok |-> TRUE, file |-> [exists |-> TRUE, rows |-> <<>>]]

\* line 163: open(csv_path, mode): "x" fails on an existing file and leaves
\* it alone, otherwise the file exists and is empty
Open(file, mode) ==
    IF mode = "x" /\ file.exists THEN [ok |-> FALSE, file |-> file]
    ELSE [ok |-> TRUE, file |-> [exists |-> TRUE, rows |-> <<>>]]

\* line 167
Header ==
    << <<"o", "r", "i", "g", "i", "n", "a", "l", "_", "u", "r", "l">>,
       <<"d", "a", "t", "a", "s", "e", "t">>,
       <<"f", "i", "l", "e", "n", "a", "m", "e">>,
       <<"v", "e", "r", "s", "i", "o", "n">> >>

\* lines 170-172: the row written for one yielded (s3_url, version)
Row(item, dataset, split_key) ==
    <<item[1], dataset, Filename(item[1], split_key), item[2]>>

\* line 158
DatasetName(dataset_name, key) == IF dataset_name # <<>> THEN dataset_name[1] ELSE key

\* lines 94-99: the first request's arguments
InitialKwargs(bucket, prefix) ==
    [Bucket |-> bucket, MaxKeys |-> MaxKeys,
     Prefix |-> IF prefix # <<>> THEN <<prefix>> ELSE <<>>,
     ContinuationToken |-> <<>>]

\* the next request's arguments when the token is not passed on
WithTokenDropped(kw, r) == kw

\* line 124: kwargs["ContinuationToken"] = resp["NextContinuationToken"]
WithToken(kw, r) == [kw EXCEPT !.ContinuationToken = r.NextContinuationToken]

\* a lister that does not catch the missing "Contents"
OutcomeMissingContentsRaises(r) ==
    IF r.error \/ r.Contents = <<>> THEN "raised" ELSE "scan"

\* a lister that takes a failed listing call for the end of the listing
OutcomeErrorSwallowed(r) ==
    IF r.error \/ r.Contents = <<>> THEN "returned" ELSE "scan"

\* lines 104-109: what the generator does with the outcome of one listing
\* call: the call's exception propagates, a response without "Contents"
\* ends the generator, any other response is scanned
Outcome(r) ==
    IF r.error THEN "raised"
    ELSE IF r.Contents = <<>> THEN "returned"
    ELSE "scan"

\* ------------------------------------------------------------- the inputs
Uris ==
    { <<"s", "3", ":", Slash, Slash, "b", Slash, "p">>,
      <<"b", Slash, "p">>,
      <<"b">>,
      <<"s", "3", ":", Slash, Slash, "b">>,
      <<"b", Slash>> }

Suffixes == { <<>>, <<"x">> }

DatasetNames == { <<>>, << <<"d", "s">> >> }

Obj1 == [Key |-> <<"p", Slash, "x">>, ETag |-> <<Quote, "e", Quote>>]
Obj2 == [Key |-> <<"p", Slash, "d", Slash, "y">>, ETag |-> <<"e">>]
Obj3 == [Key |-> <<"p", Slash, "p", Slash, "x">>, ETag |-> <<Quote, Quote, "f", Quote>>]
Obj4 == [Key |-> <<"q", Slash, "x">>, ETag |-> <<Quote, "g", Quote>>]

\* the object lists a listing response may carry
PageContents == { <<Obj1, Obj2>>, <<Obj3>>, <<Obj4, Obj1>>, <<>> }

\* what list_objects_v2 does for one request: it raises, or it returns a
\* response with or without "Contents" and with or without a token; the
\* token of page i is i
Responses(i) ==
    { [error |-> TRUE, Contents |-> <<>>, NextContinuationToken |-> <<>>] }
    \cup [error : {FALSE},
          Contents : {<<>>} \cup {<<c>> : c \in PageContents},
          NextContinuationToken : {<<>>, <<i>>}]

\* the pages the service holds: the listing is finite, so the last page
\* carries no token
Listings ==
    UNION { { l \in [1..n -> UNION {Responses(i) : i \in 1..n}] :
                /\ \A i \in 1..n : l[i] \in Responses(i)
                /\ l[n].NextContinuationToken = <<>> } : n \in 1..MaxPages }

\* the pieces the strings handed to the parser alone are made of
Chunks == { Scheme, <<"b">>, <<Slash>>, <<":">>, <<Newline>>, <<"k">> }

RECURSIVE Concat(_)
Concat(parts) == IF parts = <<>> THEN <<>> ELSE Head(parts) \o Concat(Tail(parts))

ParserInputs == { Concat(c) : c \in UNION { [1..n -> Chunks] : n \in 0..MaxChunks } }

NoFile == [exists |-> FALSE, rows |-> <<>>]
OldFile == [exists |-> TRUE, rows |-> << << <<"o", "l", "d">> >> >>]

\* --------------------------------------------------------------- the state
VARIABLES
    entry,         \* "cli": create_add_urls_csv; "lister": get_matching_s3_keys iterated by a caller
    s3_uri, suffix, add_version, overwrite, dataset_name,
    pages,         \* the storage service: the response to the n-th listing request
    file0,         \* the file at csv_path when the run starts
    csv_file,      \* the file at csv_path
    pc,            \* create_add_urls_csv / the caller
    gpc,           \* the generator
    err,           \* the exception the run ended with
    bucket, prefix, kwargs, resp, idx,   \* the generator's locals
    parsed, split_key, dataset,          \* create_add_urls_csv's locals
    requests,      \* the listing requests issued
    yielded        \* the items the generator has yielded

inputs == <<entry, s3_uri, suffix, add_version, overwrite, dataset_name, pages, file0>>
glocals == <<bucket, prefix, kwargs, resp, idx>>
clocals == <<parsed, split_key, dataset>>
vars == <<inputs, csv_file, pc, gpc, err, glocals, clocals, requests, yielded>>

NoResp == [error |-> FALSE, Contents |-> <<>>, NextContinuationToken |-> <<>>]
NotParsed == [ok |-> FALSE, bucket |-> <<>>, key |-> <<>>]

Init ==
    /\ entry \in {"cli", "lister"}
    /\ s3_uri \in Uris
    /\ pages \in Listings
    /\ IF entry = "cli"
       THEN /\ suffix = <<>>
            /\ add_version = TRUE
            /\ overwrite \in BOOLEAN
            /\ dataset_name \in DatasetNames
            /\ file0 \in {NoFile, OldFile}
            /\ pc = "call"
            /\ gpc = "none"
       ELSE /\ suffix \in Suffixes
            /\ add_version \in BOOLEAN
            /\ overwrite = FALSE
            /\ dataset_name = <<>>
            /\ file0 = NoFile
            /\ pc = "iterate"
            /\ gpc = "created"
    /\ csv_file = file0
    /\ err = "none"
    /\ bucket = <<>> /\ prefix = <<>>
    /\ kwargs = InitialKwargs(<<>>, <<>>)
    /\ resp = NoResp
    /\ idx = 0
    /\ parsed = NotParsed
    /\ split_key = <<>> /\ dataset = <<>>
    /\ requests = <<>>
    /\ yielded = <<>>

\* ------------------------------------------------------ create_add_urls_csv
\* line 155: calling a generator function runs none of its body
CreateGenerator ==
    /\ pc = "call"
    /\ gpc' = "created"
    /\ pc' = "parse"
    /\ UNCHANGED <<inputs, csv_file, err, glocals, clocals, requests, yielded>>

\* lines 157-159
ParseUri ==
    /\ pc = "parse"
    /\ LET m == _parse_s3_uri(s3_uri)
       IN  IF ~m.ok
           THEN /\ pc' = "failed"
                /\ err' = "ValueError"
                /\ UNCHANGED <<parsed, split_key, dataset>>
           ELSE /\ pc' = "open"
                /\ parsed' = m
                /\ dataset' = DatasetName(dataset_name, m.key)
                /\ split_key' = m.key
                /\ UNCHANGED err
    /\ UNCHANGED <<inputs, csv_file, gpc, glocals, requests, yielded>>

\* lines 161-167: open the file and write the header
OpenCsv ==
    /\ pc = "open"
    /\ LET r == Open(csv_file, OpenMode(overwrite))
       IN  IF ~r.ok
           THEN /\ pc' = "failed"
                /\ err' = "FileExistsError"
                /\ csv_file' = r.file
           ELSE /\ pc' = "iterate"
                /\ csv_file' = [r.file EXCEPT !.rows = Append(@, Header)]
                /\ UNCHANGED err
    /\ UNCHANGED <<inputs, gpc, glocals, clocals, requests, yielded>>

\* a loop body that keeps the item for later and writes nothing yet
WriteRowDeferred ==
    /\ entry = "cli"
    /\ pc = "iterate"
    /\ gpc = "suspended"
    /\ gpc' = "scan"
    /\ idx' = idx + 1
    /\ UNCHANGED <<inputs, csv_file, pc, err, bucket, prefix, kwargs, resp, clocals,
                   requests, yielded>>

\* lines 169-172: the loop body, run when the generator has yielded an item
WriteRow ==
    /\ entry = "cli"
    /\ pc = "iterate"
    /\ gpc = "suspended"
    /\ csv_file' = [csv_file EXCEPT
                      !.rows = Append(@, Row(yielded[Len(yielded)], dataset, split_key))]
    /\ gpc' = "scan"
    /\ idx' = idx + 1
    /\ UNCHANGED <<inputs, pc, err, bucket, prefix, kwargs, resp, clocals,
                   requests, yielded>>

\* line 169, StopIteration: the loop and the with block end
Finish ==
    /\ pc = "iterate"
    /\ gpc = "returned"
    /\ pc' = "done"
    /\ UNCHANGED <<inputs, csv_file, gpc, err, glocals, clocals, requests, yielded>>

\* a caller of get_matching_s3_keys takes the item and asks for the next
TakeItem ==
    /\ entry = "lister"
    /\ pc = "iterate"
    /\ gpc = "suspended"
    /\ gpc' = "scan"
    /\ idx' = idx + 1
    /\ UNCHANGED <<inputs, csv_file, pc, err, bucket, prefix, kwargs, resp, clocals,
                   requests, yielded>>

\* ----------------------------------------------------- get_matching_s3_keys
\* lines 89-99, run by the first next() on the generator
GenStart ==
    /\ pc = "iterate"
    /\ gpc = "created"
    /\ LET m == _parse_s3_uri(s3_uri)
       IN  IF ~m.ok
           THEN /\ gpc' = "raised"
                /\ pc' = "failed"
                /\ err' = "ValueError"
                /\ UNCHANGED <<bucket, prefix, kwargs>>
           ELSE /\ gpc' = "request"
                /\ bucket' = m.bucket
                /\ prefix' = m.key
                /\ kwargs' = InitialKwargs(m.bucket, m.key)
                /\ UNCHANGED <<pc, err>>
    /\ UNCHANGED <<inputs, csv_file, resp, idx, clocals, requests, yielded>>

\* lines 104-109: one listing request and the look at its "Contents"
ListObjects ==
    /\ pc = "iterate"
    /\ gpc = "request"
    /\ Len(requests) < Len(pages)
    /\ requests' = Append(requests, kwargs)
    /\ LET r == pages[Len(requests) + 1]
       IN  /\ gpc' = Outcome(r)
           /\ IF gpc' = "raised"
              THEN /\ pc' = "failed"
                   /\ err' = "ClientError"
                   /\ UNCHANGED <<resp, idx>>
              ELSE /\ resp' = r
                   /\ idx' = IF gpc' = "scan" THEN 1 ELSE idx
                   /\ UNCHANGED <<pc, err>>
    /\ UNCHANGED <<inputs, csv_file, bucket, prefix, kwargs, clocals, yielded>>

\* lines 111-118: one object of the page
ScanObject ==
    /\ pc = "iterate"
    /\ gpc = "scan"
    /\ idx <= Len(resp.Contents[1])
    /\ LET obj == resp.Contents[1][idx]
       IN  IF Keep(obj.Key, prefix, suffix)
           THEN /\ yielded' = Append(yielded, Yielded(bucket, obj, add_version))
                /\ gpc' = "suspended"
                /\ UNCHANGED idx
           ELSE /\ idx' = idx + 1
                /\ UNCHANGED <<gpc, yielded>>
    /\ UNCHANGED <<inputs, csv_file, pc, err, bucket, prefix, kwargs, resp, clocals,
                   requests>>

\* lines 123-126: after the last object of the page
NextPage ==
    /\ pc = "iterate"
    /\ gpc = "scan"
    /\ idx > Len(resp.Contents[1])
    /\ IF resp.NextContinuationToken # <<>>
       THEN /\ kwargs' = WithToken(kwargs, resp)
            /\ gpc' = "request"
       ELSE /\ gpc' = "returned"
            /\ UNCHANGED kwargs
    /\ UNCHANGED <<inputs, csv_file, pc, err, bucket, prefix, resp, idx, clocals,
                   requests, yielded>>

Next ==
    \/ CreateGenerator
    \/ ParseUri
    \/ OpenCsv
    \/ WriteRow
    \/ Finish
    \/ TakeItem
    \/ GenStart
    \/ ListObjects
    \/ ScanObject
    \/ NextPage

Spec == Init /\ [][Next]_vars

\* ------------------------------------------------- _parse_s3_uri on its own
InitParse ==
    /\ entry = "parser"
    /\ s3_uri \in ParserInputs
    /\ pages = <<>>
    /\ suffix = <<>>
    /\ add_version = TRUE
    /\ overwrite = FALSE
    /\ dataset_name = <<>>
    /\ file0 = NoFile
    /\ pc = "call"
    /\ gpc = "none"
    /\ csv_file = file0
    /\ err = "none"
    /\ bucket = <<>> /\ prefix = <<>>
    /\ kwargs = InitialKwargs(<<>>, <<>>)
    /\ resp = NoResp
    /\ idx = 0
    /\ parsed = NotParsed
    /\ split_key = <<>> /\ dataset = <<>>
    /\ requests = <<>>
    /\ yielded = <<>>

\* lines 25-33: the match, then the error or the groups
ApplyParse ==
    /\ entry = "parser"
    /\ pc = "call"
    /\ LET m == _parse_s3_uri(s3_uri)
       IN  IF ~m.ok
           THEN /\ pc' = "failed"
                /\ err' = "ValueError"
                /\ UNCHANGED parsed
           ELSE /\ pc' = "done"
                /\ parsed' = m
                /\ UNCHANGED err
    /\ UNCHANGED <<inputs, csv_file, gpc, glocals, split_key, dataset, requests, yielded>>

NextParse == ApplyParse

SpecParse == InitParse /\ [][NextParse]_vars

\* ================================================================ the claims
\* what the claims speak of, stated apart from the definitions above

HasPrefix(s, p) == Len(p) <= Len(s) /\ \A i \in 1..Len(p) : s[i] = p[i]

HasSuffix(s, x) ==
    Len(x) <= Len(s) /\ \A i \in 1..Len(x) : s[Len(s) - Len(x) + i] = x[i]

HasSlash(s) == \E i \in 1..Len(s) : s[i] = "/"

\* "s3://" + bucket + "/" + key
UrlOf(b, k) == <<"s", "3", ":", "/", "/">> \o b \o <<"/">> \o k

\* every "/" of s doubled
RECURSIVE Doubled(_)
Doubled(s) ==
    IF s = <<>> THEN <<>>
    ELSE IF Head(s) = "/" THEN <<"/", "/">> \o Doubled(Tail(s))
    ELSE <<Head(s)>> \o Doubled(Tail(s))

\* the objects of a response: none when the call failed or carried no contents
ObjectsOf(r) == IF r.error \/ r.Contents = <<>> THEN <<>> ELSE r.Contents[1]

\* the objects of the first n pages, in page order
RECURSIVE Listed(_)
Listed(n) == IF n = 0 THEN <<>> ELSE Listed(n - 1) \o ObjectsOf(pages[n])

\* the objects of a list whose key starts with the prefix and ends with the suffix
Matching(objs) ==
    LET Test(o) == HasPrefix(o.Key, prefix) /\ HasSuffix(o.Key, suffix)
    IN  SelectSeq(objs, Test)

\* the objects the generator has looked at so far
Scanned ==
    IF gpc = "scan" THEN Listed(Len(requests) - 1) \o SubSeq(resp.Contents[1], 1, idx - 1)
    ELSE IF gpc = "suspended"
         THEN Listed(Len(requests) - 1) \o SubSeq(resp.Contents[1], 1, idx)
    ELSE Listed(Len(requests))

\* the URLs of the items yielded so far
YieldedUrls == [i \in 1..Len(yielded) |-> yielded[i][1]]

UrlsOf(objs) == [i \in 1..Len(objs) |-> UrlOf(bucket, objs[i].Key)]

\* every response carries contents, every one but the last a token
WellFormedListing ==
    \A i \in 1..Len(pages) :
        /\ ~pages[i].error
        /\ pages[i].Contents # <<>>
        /\ (i < Len(pages)) = (pages[i].NextContinuationToken # <<>>)

\* the lister has parsed its URI and is at, or past, its listing loop
ListerRuns ==
    /\ entry \in {"cli", "lister"}
    /\ gpc \in {"request", "scan", "suspended", "returned"} \/ err = "ClientError"

\* C1: over a listing whose every response carries contents and whose every
\* response but the last carries a token, the lister never issues more
\* requests than there are pages, no request is issued twice, the first
\* request carries no token and every later one the token of the response
\* before it, and when the lister
\* ends it has issued one request per page and yielded the matching objects
\* of all pages in page order and in within-page order.
C1_Pagination ==
    (ListerRuns /\ WellFormedListing) =>
        /\ Len(requests) <= Len(pages)
        /\ \A i \in 1..Len(requests) :
              /\ requests[i].ContinuationToken =
                    (IF i = 1 THEN <<>> ELSE pages[i - 1].NextContinuationToken)
              /\ requests[i].Bucket = bucket
              /\ requests[i].MaxKeys = 1000
              /\ \A h \in 1..(i - 1) : requests[h] # requests[i]
        /\ gpc \notin {"request", "scan", "suspended"} =>
              /\ gpc = "returned"
              /\ Len(requests) = Len(pages)
              /\ YieldedUrls = UrlsOf(Matching(Listed(Len(pages))))

\* two pages, two objects then one, all three yielded from two requests
C1_Witness ==
    /\ gpc = "returned"
    /\ WellFormedListing
    /\ Len(pages) = 2
    /\ Len(pages[1].Contents[1]) = 2
    /\ Len(pages[2].Contents[1]) = 1
    /\ Len(requests) = 2
    /\ Len(yielded) = 3

\* C2: the items yielded are exactly the objects looked at so far whose key
\* starts with the locator prefix and ends with the requested suffix, in
\* order, and each URL is "s3://" + bucket + "/" + key.
C2_Filter ==
    ListerRuns =>
        /\ YieldedUrls = UrlsOf(Matching(Scanned))
        /\ \A i \in 1..Len(yielded) :
              \E j \in 1..Len(Scanned) :
                  /\ HasPrefix(Scanned[j].Key, prefix)
                  /\ HasSuffix(Scanned[j].Key, suffix)
                  /\ yielded[i][1] = UrlOf(bucket, Scanned[j].Key)

\* a page with an object that ends in the suffix and one that does not has
\* been scanned to its end
C2_Witness ==
    /\ entry = "lister"
    /\ suffix # <<>>
    /\ gpc = "returned"
    /\ Len(yielded) > 0
    /\ Len(Matching(Scanned)) < Len(Scanned)
    /\ \E j \in 1..Len(Scanned) :
          HasPrefix(Scanned[j].Key, prefix) /\ ~HasSuffix(Scanned[j].Key, suffix)

DataRows == SubSeq(csv_file.rows, 2, Len(csv_file.rows))

\* C3: when the output path exists and overwrite is not requested, the run
\* never gets past opening the file, fails there with the file-conflict error
\* and the file keeps its contents; with overwrite the open never fails, and
\* a finished run leaves the header and one row per yielded item, none of
\* them a row of the file as it was.
C3_Overwrite ==
    (entry = "cli" /\ file0.exists) =>
        /\ ~overwrite =>
              /\ csv_file = file0
              /\ pc \in {"call", "parse", "open", "failed"}
              /\ pc = "failed" => err \in {"ValueError", "FileExistsError"}
              /\ (pc = "failed" /\ HasSlash(s3_uri)) => err = "FileExistsError"
        /\ overwrite =>
              /\ err # "FileExistsError"
              /\ pc \in {"iterate", "done"} =>
                    /\ csv_file.exists
                    /\ csv_file.rows[1] = Header
                    /\ \A i \in 1..Len(csv_file.rows) :
                          \A j \in 1..Len(file0.rows) : csv_file.rows[i] # file0.rows[j]
              /\ pc = "done" =>
                    /\ Len(DataRows) = Len(yielded)
                    /\ \A i \in 1..Len(yielded) :
                          /\ DataRows[i][1] = yielded[i][1]
                          /\ DataRows[i][4] = yielded[i][2]

\* an existing file was overwritten by a finished run that wrote rows
C3_Witness ==
    /\ entry = "cli"
    /\ file0.exists
    /\ overwrite
    /\ pc = "done"
    /\ Len(csv_file.rows) > 1

\* C4: when the first response has no contents field, no item is ever
\* yielded, no second request is issued whatever token the response carried,
\* the listing raises nothing, and a run of create_add_urls_csv that got to
\* the listing ends with a file holding the header row alone.
C4_EmptyListing ==
    (ListerRuns /\ ~pages[1].error /\ pages[1].Contents = <<>>) =>
        /\ yielded = <<>>
        /\ Len(requests) <= 1
        /\ err = "none"
        /\ Len(requests) = 1 => gpc = "returned" /\ pc \in {"iterate", "done"}
        /\ entry = "cli" => csv_file = [exists |-> TRUE, rows |-> <<Header>>]

\* the empty first response carried a token, more pages were there to ask
\* for, and the run is over
C4_Witness ==
    /\ entry = "cli"
    /\ pc = "done"
    /\ ~pages[1].error
    /\ pages[1].Contents = <<>>
    /\ pages[1].NextContinuationToken # <<>>
    /\ Len(pages) > 1
    /\ csv_file.rows = <<Header>>

\* C5: for every listed object whose key is <prefix>/<rest>, the filename
\* written is <rest> with every "/" doubled.
C5_FilenameIsRestDoubled ==
    (entry = "cli" /\ gpc = "scan" /\ idx > 1) =>
        LET key == resp.Contents[1][idx - 1].Key
            lead == parsed.key \o <<"/">>
            row == csv_file.rows[Len(csv_file.rows)]
        IN  HasPrefix(key, lead) =>
                row[3] = Doubled(SubSeq(key, Len(lead) + 1, Len(key)))

\* the string without the optional scheme at its start
AfterScheme(s) ==
    IF HasPrefix(s, <<"s", "3", ":", "/", "/">>) THEN SubSeq(s, 6, Len(s)) ELSE s

\* C6: the parser raises the malformed-URI error for every input with no "/"
\* after the optional "s3://".
C6_NoSlashRaises ==
    (entry = "parser" /\ pc # "call" /\ ~HasSlash(AfterScheme(s3_uri))) =>
        (pc = "failed" /\ err = "ValueError")

\* C7: for a non-empty bucket B with no "/" and no ":" and any key K, the
\* parser returns bucket = B and key = K for "B/K" and for "s3://B/K".
C7_ParseIsRawSplit ==
    (entry = "parser" /\ pc # "call" /\ HasSlash(AfterScheme(s3_uri))) =>
        LET rest == AfterScheme(s3_uri)
            j == CHOOSE i \in 1..Len(rest) :
                    rest[i] = "/" /\ \A h \in 1..(i - 1) : rest[h] # "/"
            B == SubSeq(rest, 1, j - 1)
            K == SubSeq(rest, j + 1, Len(rest))
        IN  (B # <<>> /\ \A h \in 1..Len(B) : B[h] # ":") =>
                (pc = "done" /\ parsed.bucket = B /\ parsed.key = K)

\* the index of the first page whose listing call fails, 0 when none does
FirstError ==
    IF \E i \in 1..Len(pages) : pages[i].error
    THEN CHOOSE i \in 1..Len(pages) :
            pages[i].error /\ \A h \in 1..(i - 1) : ~pages[h].error
    ELSE 0

\* C8: once a listing call has failed the run is over and has failed with
\* the call's error: the failed request was the last one issued, nothing can
\* happen any more, and the rows written are those of the items yielded
\* before the failure.
C8_ListingFailureIsFatal ==
    (ListerRuns /\ \E i \in 1..Len(requests) : pages[i].error) =>
        /\ pc = "failed"
        /\ gpc = "raised"
        /\ err = "ClientError"
        /\ Len(requests) = FirstError
        /\ ~ENABLED Next
        /\ YieldedUrls = UrlsOf(Matching(Listed(FirstError - 1)))
        /\ entry = "cli" => Len(DataRows) = Len(yielded)

\* the call failed on the second page, after a row of the first was written
C8_Witness ==
    /\ entry = "cli"
    /\ err = "ClientError"
    /\ Len(requests) = 2
    /\ Len(pages) = 2
    /\ Len(csv_file.rows) > 1

\* C9: the writer and the lister alternate: the rows written are as many as
\* the items yielded, but for the one item just yielded and about to be
\* written, and a listing request is about to be issued only when every
\* matching object of the pages listed so far has its row.
C9_Lockstep ==
    (entry = "cli" /\ pc \in {"iterate", "done", "failed"} /\ csv_file.rows # <<>>
        /\ err # "FileExistsError") =>
        /\ Len(DataRows) = (IF gpc = "suspended" THEN Len(yielded) - 1 ELSE Len(yielded))
        /\ \A i \in 1..Len(DataRows) : DataRows[i][1] = yielded[i][1]
        /\ gpc = "request" =>
              /\ Len(DataRows) = Len(Matching(Listed(Len(requests))))
              /\ \A i \in 1..Len(DataRows) :
                    DataRows[i][1] = UrlOf(bucket, Matching(Listed(Len(requests)))[i].Key)

\* a second request is about to be issued and the rows of page one are written
C9_Witness ==
    /\ entry = "cli"
    /\ gpc = "request"
    /\ Len(requests) = 1
    /\ Len(DataRows) = 2

\* C10: a run of create_add_urls_csv that fails with the malformed-URI error
\* or with the file-conflict error has issued no listing request and left
\* the file as it was, and a listing request is issued only once the URI has
\* parsed and the file is open with its header.
C10_ValidateAndOpenFirst ==
    entry = "cli" =>
        /\ err \in {"ValueError", "FileExistsError"} =>
              /\ requests = <<>>
              /\ csv_file = file0
              /\ gpc = "created"
        /\ (requests # <<>> \/ gpc \notin {"none", "created"}) =>
              /\ parsed.ok
              /\ HasSlash(s3_uri)
              /\ csv_file.exists
              /\ csv_file.rows # <<>>
              /\ csv_file.rows[1] = Header

\* the run failed on an existing file it was not to overwrite
C10_Witness ==
    /\ entry = "cli"
    /\ err = "FileExistsError"
    /\ file0.exists
    /\ pages[1].Contents # <<>>

====
